---------------------------- MODULE Spec2Model ----------------------------
(***************************************************************************)
(* Model of the ISRCAnalytics worker (src/apps/worker):                    *)
(*   main.py                       the /run front door (run_manual)        *)
(*   streams_service.py            retrying requests, token capture,       *)
(*                                 the metrics run                          *)
(*   catalogue_health_service.py   the availability run                    *)
(*                                                                         *)
(* Four specifications share the module's variables; each leaves the       *)
(* variables of the other parts unchanged:                                 *)
(*   SpecRetry   spotify_request_with_retries against a scripted upstream  *)
(*   SpecOrch    POST /run requests and the background threads they start  *)
(*   SpecSniff   sniff_tokens: browser, response callbacks, 30 s timeout   *)
(*   Spec        run_streams_collection / run_catalogue_health_check       *)
(*               against the snapshot tables                               *)
(***************************************************************************)
EXTENDS Integers, Sequences, FiniteSets, TLC

VARIABLES
    \* ---- spotify_request_with_retries (SpecRetry)
    reqScript,      \* what the upstream answers to attempt 1, 2, ...
    reqResult,      \* what the call returned or raised
    \* ---- main.py front door (SpecOrch)
    running_task,   \* the module global of main.py:30
    threads,        \* background threads started by run_manual and still running
    requests,       \* number of POST /run requests handled so far
    lastResponse,   \* the HTTP response of the latest POST /run
    \* ---- sniff_tokens (SpecSniff)
    sniffPc,        \* where the coroutine is
    browser,        \* "none", "open", "closed" (browser.close() ran), "orphaned"
    fut,            \* the future the response callback fulfils
    delivered,      \* number of response events delivered to on_resp
    sniffMatches,   \* the delivered responses with the target path, status 200
                    \* and a Bearer authorization header, in delivery order
    sniffResult,    \* what sniff_tokens returned or raised
    \* ---- the two runs and the relational store (Spec)
    track_dim,      \* the user's catalogue rows, in the order the SELECT returns them
    streams,        \* committed rows of table streams
    catalogue_health_status,   \* committed rows of table catalogue_health_status
    txStreams,      \* table streams as the open transaction sees it
    txHealth,       \* table catalogue_health_status as the open transaction sees it
    conn,           \* the run's connection: "None", "open", "closed"
    run,            \* the locals of the run in progress, and its outcome
    obs,            \* what the run did so far (calls made, rows written, alerts)
    lastCommit,     \* both tables as they were after the latest commit
    runsStarted,    \* number of runs started so far
    upstreamHealthy, \* TRUE: no upstream call fails and every track has a metric
    endpoint,       \* the entry point the behaviour calls: "run_streams" or
                    \* "run_health_check" (main.py:112-155)
    \* ---- one call of a function that reads no state (SpecCalls)
    args,           \* the function called and its arguments
    ret             \* what the call returned

retryVars == <<reqScript, reqResult>>
orchVars  == <<running_task, threads, requests, lastResponse>>
sniffVars == <<sniffPc, browser, fut, delivered, sniffMatches, sniffResult>>
dbVars    == <<streams, catalogue_health_status, txStreams, txHealth, conn, lastCommit>>
runVars   == <<track_dim, dbVars, run, obs, runsStarted, upstreamHealthy, endpoint>>
callVars  == <<args, ret>>
vars      == <<retryVars, orchVars, sniffVars, runVars, callVars>>

(***************************************************************************)
(* spotify_request_with_retries (streams_service.py:72-89)                 *)
(***************************************************************************)

\* Length of the upstream's script: its answers to the first ScriptLen attempts.
ScriptLen == 4

\* range(3) of the attempt loop.
RETRY_ATTEMPTS == 3

\* "if attempt < 2": the last attempt index that is followed by a sleep is 1.
LAST_ATTEMPT == 2

\* What one attempt (requests.request + raise_for_status) can do: return a 2xx
\* response, or raise a requests.exceptions.RequestException: an HTTPError
\* from raise_for_status (429, 403, 500) or a transport error.
AttemptOutcomes == {"ok", "http_429", "http_403", "http_500", "conn_error"}

Scripts == [1..ScriptLen -> AttemptOutcomes]

\* The exception object one failed attempt raises.
AttemptError(outcome, attempt) ==
    [class   |-> IF outcome = "conn_error" THEN "ConnectionError" ELSE "HTTPError",
     cause   |-> outcome,
     message |-> "attempt_failure"]

\* The exception of line 89, after the loop.
AllRetriesFailed ==
    [class |-> "RequestException", cause |-> "none", message |-> "all_retries_failed"]

NoError == [class |-> "none", cause |-> "none", message |-> "none"]

RECURSIVE RetryLoopNoCeiling(_, _, _)
\* Mutant: the loop keeps retrying for as long as the upstream keeps failing.
RetryLoopNoCeiling(script, attempt, sleeps) ==
    IF attempt >= Len(script)
    THEN [kind |-> "raise", error |-> AllRetriesFailed, attempts |-> attempt,
          sleeps |-> sleeps]
    ELSE IF script[attempt + 1] = "ok"
    THEN [kind |-> "return", error |-> NoError, attempts |-> attempt + 1,
          sleeps |-> sleeps]
    ELSE RetryLoopNoCeiling(script, attempt + 1, Append(sleeps, 2 ^ attempt))

RECURSIVE RetryLoop(_, _, _)
\* The for loop of lines 77-87 from iteration `attempt` on, and line 89 after it.
\* attempts counts the calls of requests.request; sleeps lists the time.sleep
\* arguments in order.
RetryLoop(script, attempt, sleeps) ==
    IF attempt >= RETRY_ATTEMPTS
    THEN [kind |-> "raise", error |-> AllRetriesFailed, attempts |-> attempt,
          sleeps |-> sleeps]
    ELSE IF script[attempt + 1] = "ok"
    THEN [kind |-> "return", error |-> NoError, attempts |-> attempt + 1,
          sleeps |-> sleeps]
    ELSE IF attempt < LAST_ATTEMPT
    THEN RetryLoop(script, attempt + 1, Append(sleeps, 2 ^ attempt))
    ELSE \* bare "raise": the exception of this attempt goes to the caller
         [kind |-> "raise", error |-> AttemptError(script[attempt + 1], attempt),
          attempts |-> attempt + 1, sleeps |-> sleeps]

spotify_request_with_retries(script) == RetryLoop(script, 0, <<>>)

NotCalled == [kind |-> "not_called", error |-> NoError, attempts |-> 0, sleeps |-> <<>>]

InitRetry ==
    /\ reqScript \in Scripts
    /\ reqResult = NotCalled

CallRequest ==
    /\ reqResult.kind = "not_called"
    /\ reqResult' = spotify_request_with_retries(reqScript)
    /\ UNCHANGED <<reqScript, orchVars, sniffVars, runVars, callVars>>

(***************************************************************************)
(* main.py: POST /run (run_manual, lines 84-110) and its threads           *)
(***************************************************************************)

\* Number of POST /run requests a behaviour holds.
MaxRequests == 3

Users == {"u1", "u2"}

NoTask == "None"

\* run_manual never assigns the global running_task (main.py:97-108 holds no
\* assignment to it), so "running_task and not running_task.done()" reads the
\* initial None. TaskBusy is that condition.
TaskBusy(task, running) == task # NoTask /\ task \in running

NoResponse == [status |-> 0, user |-> "none", started |-> 0]

InitOrch ==
    /\ running_task = NoTask
    /\ threads = {}
    /\ requests = 0
    /\ lastResponse = NoResponse

\* One POST /run, from check_token to the response. The check and the thread
\* start happen under task_lock, so the handler is one step.
run_manual(authorized, user_id) ==
    /\ requests < MaxRequests
    /\ requests' = requests + 1
    /\ IF ~authorized
       THEN /\ lastResponse' = [status |-> 403, user |-> user_id, started |-> 0]
            /\ UNCHANGED <<running_task, threads>>
       ELSE IF user_id = "none"
       THEN /\ lastResponse' = [status |-> 400, user |-> user_id, started |-> 0]
            /\ UNCHANGED <<running_task, threads>>
       ELSE IF TaskBusy(running_task, {t.id : t \in threads})
       THEN /\ lastResponse' = [status |-> 429, user |-> user_id, started |-> 0]
            /\ UNCHANGED <<running_task, threads>>
       ELSE /\ threads' = threads \cup {[id |-> requests + 1, user |-> user_id]}
            /\ lastResponse' = [status |-> 202, user |-> user_id,
                                started |-> requests + 1]
            /\ UNCHANGED running_task
    /\ UNCHANGED <<retryVars, sniffVars, runVars, callVars>>

RunManual == \E authorized \in BOOLEAN, user_id \in Users \cup {"none"} :
                run_manual(authorized, user_id)

\* What run_all_tasks returns (main.py:45-61) after a metrics run that ended as
\* streamsResult: the first exception of its three tasks becomes a status
\* "error" outcome, and with none the outcome is status "success". laterTasks
\* is "ok" or the error raised by the followers or the health task.
run_all_tasks(user_id, streamsResult, laterTasks) ==
    IF streamsResult.kind = "raise"
    THEN [status |-> "error", error |-> streamsResult.error]
    ELSE IF laterTasks # "ok"
    THEN [status |-> "error", error |-> laterTasks]
    ELSE [status |-> "success", user_id |-> user_id]

\* A background thread's run_all_tasks returns (it catches every Exception,
\* main.py:59-61) and the thread ends.
ThreadEnds == \E t \in threads :
    /\ threads' = threads \ {t}
    /\ UNCHANGED <<running_task, requests, lastResponse, retryVars, sniffVars, runVars,
                   callVars>>

(***************************************************************************)
(* sniff_tokens (streams_service.py:141-181)                               *)
(***************************************************************************)

\* Number of response events the page delivers in one capture.
MaxResponses == 4

\* wait_for(fut, timeout=30)
SNIFF_TIMEOUT == 30

\* A response event as on_resp reads it: whether its URL holds the pathfinder
\* path and its status is 200, the request's authorization header and its
\* client-token header.
AuthHeaders == {"Bearer tokA", "Bearer tokB", "Basic xyz", "none"}
ClientTokens == {"cliA", "none"}
Responses == [target : BOOLEAN, auth : AuthHeaders, cli : ClientTokens]

IsBearer(auth) == auth \in {"Bearer tokA", "Bearer tokB"}
\* auth.split(" ", 1)[1]
BearerToken(auth) == IF auth = "Bearer tokA" THEN "tokA" ELSE "tokB"

FutPending   == [state |-> "pending", tok |-> "none", cli |-> "none"]
FutCancelled == [state |-> "cancelled", tok |-> "none", cli |-> "none"]
FutResult(tok, cli) == [state |-> "result", tok |-> tok, cli |-> cli]

\* fut.done(): a result is set or the future was cancelled.
FutDone(f) == f.state # "pending"

NoSniffResult == [kind |-> "none", tok |-> "none", cli |-> "none", error |-> "none",
                  timeout |-> 0]

InitSniff ==
    /\ sniffPc = "start"
    /\ browser = "none"
    /\ fut = FutPending
    /\ delivered = 0
    /\ sniffMatches = <<>>
    /\ sniffResult = NoSniffResult

\* Lines 153-175: start playwright, launch the browser, open the page, create
\* the future and register on_resp. A failed launch raises with no browser.
SniffLaunch == \E ok \in BOOLEAN :
    /\ sniffPc = "start"
    /\ IF ok
       THEN /\ sniffPc' = "goto"
            /\ browser' = "open"
            /\ UNCHANGED sniffResult
       ELSE /\ sniffPc' = "raised"
            /\ sniffResult' = [NoSniffResult EXCEPT !.kind = "raise",
                                                    !.error = "launch_error"]
            /\ UNCHANGED browser
    /\ fut' = FutPending
    /\ UNCHANGED <<delivered, sniffMatches, retryVars, orchVars, runVars, callVars>>

\* Mutant: the result is set without asking fut.done() first.
on_resp_overwrites(resp) ==
    /\ sniffPc \in {"goto", "waiting", "closing"}
    /\ browser = "open"
    /\ delivered < MaxResponses
    /\ delivered' = delivered + 1
    /\ sniffMatches' = IF resp.target /\ IsBearer(resp.auth)
                       THEN Append(sniffMatches, resp) ELSE sniffMatches
    /\ IF resp.target /\ resp.auth # "none" /\ IsBearer(resp.auth)
       THEN fut' = FutResult(BearerToken(resp.auth), resp.cli)
       ELSE UNCHANGED fut
    /\ UNCHANGED <<sniffPc, browser, sniffResult, retryVars, orchVars, runVars, callVars>>

\* on_resp (lines 165-173), run by the event loop while the coroutine awaits
\* page.goto, wait_for or browser.close.
on_resp(resp) ==
    /\ sniffPc \in {"goto", "waiting", "closing"}
    /\ browser = "open"
    /\ delivered < MaxResponses
    /\ delivered' = delivered + 1
    /\ sniffMatches' = IF resp.target /\ IsBearer(resp.auth)
                       THEN Append(sniffMatches, resp) ELSE sniffMatches
    /\ IF resp.target /\ resp.auth # "none" /\ IsBearer(resp.auth) /\ ~FutDone(fut)
       THEN fut' = FutResult(BearerToken(resp.auth), resp.cli)
       ELSE UNCHANGED fut
    /\ UNCHANGED <<sniffPc, browser, sniffResult, retryVars, orchVars, runVars, callVars>>

OnResponse == \E resp \in Responses : on_resp(resp)

\* Line 176: page.goto returns, or raises before the try block is entered; then
\* only the async_playwright context exit tears the browser down.
PageGoto == \E ok \in BOOLEAN :
    /\ sniffPc = "goto"
    /\ IF ok
       THEN /\ sniffPc' = "waiting"
            /\ UNCHANGED <<browser, sniffResult>>
       ELSE /\ sniffPc' = "raised"
            /\ browser' = "orphaned"
            /\ sniffResult' = [NoSniffResult EXCEPT !.kind = "raise",
                                                    !.error = "goto_error"]
    /\ UNCHANGED <<fut, delivered, sniffMatches, retryVars, orchVars, runVars, callVars>>

\* Line 179, the future is fulfilled: wait_for hands its result to "return",
\* and the finally block runs next.
WaitResult ==
    /\ sniffPc = "waiting"
    /\ fut.state = "result"
    /\ sniffPc' = "closing"
    /\ sniffResult' = [NoSniffResult EXCEPT !.kind = "return", !.tok = fut.tok,
                                            !.cli = fut.cli]
    /\ UNCHANGED <<browser, fut, delivered, sniffMatches, retryVars, orchVars, runVars,
                   callVars>>

\* Mutant: the browser is closed on the success path only.
WaitTimeoutNoClose ==
    /\ sniffPc = "waiting"
    /\ fut.state = "pending"
    /\ fut' = FutCancelled
    /\ sniffPc' = "raised"
    /\ sniffResult' = [NoSniffResult EXCEPT !.kind = "raise", !.error = "TimeoutError",
                                            !.timeout = SNIFF_TIMEOUT]
    /\ UNCHANGED <<browser, delivered, sniffMatches, retryVars, orchVars, runVars,
                   callVars>>

\* Line 179, 30 s pass with the future still pending: wait_for cancels it and
\* raises TimeoutError, and the finally block runs next.
WaitTimeout ==
    /\ sniffPc = "waiting"
    /\ fut.state = "pending"
    /\ fut' = FutCancelled
    /\ sniffPc' = "closing"
    /\ sniffResult' = [NoSniffResult EXCEPT !.kind = "raise", !.error = "TimeoutError",
                                            !.timeout = SNIFF_TIMEOUT]
    /\ UNCHANGED <<browser, delivered, sniffMatches, retryVars, orchVars, runVars,
                   callVars>>

\* Lines 180-181: finally: await browser.close(); then the pending return or
\* raise completes.
BrowserClose ==
    /\ sniffPc = "closing"
    /\ browser' = "closed"
    /\ sniffPc' = IF sniffResult.kind = "return" THEN "returned" ELSE "raised"
    /\ UNCHANGED <<fut, delivered, sniffMatches, sniffResult, retryVars, orchVars,
                   runVars, callVars>>

(***************************************************************************)
(* The relational store: keyed upserts, commit, rollback                   *)
(***************************************************************************)

\* "if checked_count % 10 == 0: conn.commit()" (catalogue_health_service.py:174)
BATCH_SIZE == 10

\* ON CONFLICT (platform, track_uid, stream_date)
StreamKey(r) == <<r.platform, r.track_uid, r.stream_date>>

\* ON CONFLICT (check_date, track_uid)
HealthKey(r) == <<r.check_date, r.track_uid>>

\* Mutant: a plain INSERT, with no ON CONFLICT clause.
InsertStreamNoConflict(table, row) == table \cup {row}

\* INSERT INTO streams ... ON CONFLICT (...) DO UPDATE SET playcount =
\* EXCLUDED.playcount (streams_service.py:270-275): a row with the key keeps
\* its other columns and takes the new playcount.
UpsertStream(table, row) ==
    IF \E r \in table : StreamKey(r) = StreamKey(row)
    THEN {IF StreamKey(r) = StreamKey(row)
          THEN [r EXCEPT !.playcount = row.playcount] ELSE r : r \in table}
    ELSE table \cup {row}

\* INSERT INTO catalogue_health_status ... ON CONFLICT (check_date, track_uid)
\* DO UPDATE SET apple_music_status, spotify_status (and updated_at, which the
\* model leaves out) (catalogue_health_service.py:160-169).
UpsertHealth(table, row) ==
    IF \E r \in table : HealthKey(r) = HealthKey(row)
    THEN {IF HealthKey(r) = HealthKey(row)
          THEN [r EXCEPT !.apple_music_status = row.apple_music_status,
                         !.spotify_status = row.spotify_status]
          ELSE r : r \in table}
    ELSE table \cup {row}

(***************************************************************************)
(* search_track, fetch_album and the playcount extraction                  *)
(***************************************************************************)

\* An ISRC is a code and the letter case it is written in; str.upper() maps
\* every spelling of a code to the upper-case one.
Upper(isrc) == [isrc EXCEPT !.case = "upper"]

RECURSIVE FirstIsrcMatchCaseSensitive(_, _, _)
\* Mutant: the ISRCs are compared as written.
FirstIsrcMatchCaseSensitive(items, isrc, i) ==
    IF i > Len(items) THEN 0
    ELSE IF items[i].isrc = isrc THEN i
    ELSE FirstIsrcMatchCaseSensitive(items, isrc, i + 1)

RECURSIVE FirstIsrcMatch(_, _, _)
\* The for loop of lines 122-125: the index of the first item whose
\* external_ids.isrc equals the requested ISRC ignoring case, 0 if none.
FirstIsrcMatch(items, isrc, i) ==
    IF i > Len(items) THEN 0
    ELSE IF Upper(items[i].isrc) = Upper(isrc) THEN i
    ELSE FirstIsrcMatch(items, isrc, i + 1)

NoTrackInfo == [found |-> FALSE, track_id |-> "", album_id |-> ""]

\* Mutant: an incomplete selection falls back to the first complete candidate.
search_track_falls_back(items, isrc) ==
    LET complete == {i \in 1..Len(items) : items[i].id # "" /\ items[i].album_id # ""}
    IN  IF complete = {} THEN NoTrackInfo
        ELSE LET m == FirstIsrcMatch(items, isrc, 1)
                 k == IF m = 0 THEN 1 ELSE m
                 best == IF k \in complete THEN items[k]
                         ELSE items[CHOOSE i \in complete : \A j \in complete : i <= j]
             IN  [found |-> TRUE, track_id |-> best.id, album_id |-> best.album_id]

\* search_track after the request returned (lines 116-139): items is
\* r.json()["tracks"]["items"]; "" stands for a missing id.
search_track(items, isrc) ==
    IF Len(items) = 0 THEN NoTrackInfo
    ELSE LET m == FirstIsrcMatch(items, isrc, 1)
             best == IF m = 0 THEN items[1] ELSE items[m]
         IN  IF ~(best.id # "" /\ best.album_id # "")
             THEN NoTrackInfo
             ELSE [found |-> TRUE, track_id |-> best.id, album_id |-> best.album_id]

\* A playcount field as the JSON gives it: absent (None), a number, or a string
\* of characters.
RawNone == [type |-> "none", num |-> 0, chars |-> <<>>]
RawInt(n) == [type |-> "int", num |-> n, chars |-> <<>>]
RawStr(cs) == [type |-> "str", num |-> 0, chars |-> cs]

DigitChars == <<"0", "1", "2", "3", "4", "5", "6", "7", "8", "9">>

DigitValue(c) == CHOOSE d \in 0..9 : DigitChars[d + 1] = c

RECURSIVE NatToStr(_)
NatToStr(n) == IF n < 10 THEN <<DigitChars[n + 1]>>
               ELSE Append(NatToStr(n \div 10), DigitChars[(n % 10) + 1])

\* str(raw)
StrOf(raw) ==
    IF raw.type = "str" THEN raw.chars
    ELSE IF raw.num < 0 THEN <<"-">> \o NatToStr(0 - raw.num)
    ELSE NatToStr(raw.num)

\* Python truthiness of raw: None, 0 and "" are false.
Truthy(raw) ==
    \/ raw.type = "int" /\ raw.num # 0
    \/ raw.type = "str" /\ Len(raw.chars) > 0

\* str.isdigit()
IsDigit(cs) ==
    /\ Len(cs) > 0
    /\ \A i \in 1..Len(cs) : \E d \in 1..10 : DigitChars[d] = cs[i]

RECURSIVE ParseInt(_)
\* int(raw) of a digit string (or of a number).
ParseInt(cs) ==
    IF Len(cs) = 0 THEN 0
    ELSE 10 * ParseInt(SubSeq(cs, 1, Len(cs) - 1)) + DigitValue(cs[Len(cs)])

NoPlaycount == [found |-> FALSE, value |-> 0]

RECURSIVE ExtractPlaycountLenient(_, _, _)
\* Mutant: a counter that is not a digit string is stored as 0.
ExtractPlaycountLenient(items, track_id, i) ==
    IF i > Len(items) THEN NoPlaycount
    ELSE IF items[i].uri = track_id /\ Truthy(items[i].playcount)
    THEN [found |-> TRUE,
          value |-> IF IsDigit(StrOf(items[i].playcount))
                    THEN ParseInt(StrOf(items[i].playcount)) ELSE 0]
    ELSE ExtractPlaycountLenient(items, track_id, i + 1)

RECURSIVE ExtractPlaycount(_, _, _)
\* The loop of lines 259-266 over tracksV2.items from item i on: the first item
\* with the target URI whose playcount is truthy and all digits decides.
ExtractPlaycount(items, track_id, i) ==
    IF i > Len(items) THEN NoPlaycount
    ELSE IF /\ items[i].uri = track_id
            /\ Truthy(items[i].playcount)
            /\ IsDigit(StrOf(items[i].playcount))
    THEN [found |-> TRUE, value |-> ParseInt(StrOf(items[i].playcount))]
    ELSE ExtractPlaycount(items, track_id, i + 1)

EmptyAlbum == [data |-> FALSE, union_null |-> FALSE, items |-> <<>>]

\* fetch_album (lines 200-210): the response JSON, or {} when the request raised
\* a RequestException after its retries or the response holds no data.
fetch_album(req, response) ==
    IF req.kind = "raise" THEN EmptyAlbum
    ELSE IF ~response.data THEN EmptyAlbum
    ELSE response

(***************************************************************************)
(* The upstream as one run sees it                                         *)
(***************************************************************************)

\* Longest catalogue of a run in which upstream calls may fail.
MaxTracks == 2

\* Number of runs a behaviour holds, one after the other.
MaxRuns == 2

FirstTryOk == spotify_request_with_retries([i \in 1..ScriptLen |-> "ok"])

Exhausted == spotify_request_with_retries([i \in 1..ScriptLen |-> "http_429"])

\* The outcomes a request can have in this behaviour. A run reads of a request
\* only whether it returned or raised, so one outcome of each kind stands for
\* the rest.
RequestsIn(healthy) == IF healthy THEN {FirstTryOk} ELSE {FirstTryOk, Exhausted}

\* Row i of track_dim; a row may lack its title.
TrackRow(i, hasTitle) ==
    [track_uid |-> i, isrc |-> [code |-> i, case |-> "lower"],
     title |-> IF hasTitle THEN "title" ELSE "", artist |-> "artist"]

\* Search candidates for a catalogue track: one that carries the track's ISRC
\* (upper case), one that carries another ISRC, one that lacks its album id.
CandMatch(track) == [id |-> "trkA", album_id |-> "albA", isrc |-> Upper(track.isrc)]
CandOther == [id |-> "trkB", album_id |-> "albB", isrc |-> [code |-> 0, case |-> "upper"]]
CandNoAlbum(track) == [id |-> "trkA", album_id |-> "", isrc |-> Upper(track.isrc)]

SearchItemsIn(track, healthy) ==
    IF healthy THEN {<<CandMatch(track)>>}
    ELSE {<<>>, <<CandMatch(track)>>, <<CandOther>>, <<CandOther, CandMatch(track)>>,
          <<CandNoAlbum(track)>>, <<CandNoAlbum(track), CandMatch(track)>>}

AlbumItem(uri, raw) == [uri |-> uri, playcount |-> raw]
AlbumWith(items) == [data |-> TRUE, union_null |-> FALSE, items |-> items]

RunRaws == {RawNone, RawInt(0), RawStr(<<"0">>), RawStr(<<"7">>), RawStr(<<"a">>)}

\* Bodies of the getAlbum response: no data envelope, a null albumUnion, a
\* track list without the target URI, and one entry with each kind of counter.
AlbumsIn(healthy) ==
    IF healthy THEN {AlbumWith(<<AlbumItem("trkA", RawStr(<<"7">>))>>)}
    ELSE {EmptyAlbum, [data |-> TRUE, union_null |-> TRUE, items |-> <<>>],
          AlbumWith(<<AlbumItem("trkB", RawStr(<<"7">>))>>)}
         \cup {AlbumWith(<<AlbumItem("trkA", raw)>>) : raw \in RunRaws}

\* What sniff_tokens hands to the run: a (bearer, client-token) pair, or the
\* TimeoutError of wait_for.
SniffOutcomesIn(healthy) ==
    {[kind |-> "return", tok |-> "tokA", cli |-> "cliA"]}
    \cup (IF healthy THEN {}
          ELSE {[kind |-> "raise", tok |-> "none", cli |-> "none"]})

(***************************************************************************)
(* Run state                                                               *)
(***************************************************************************)

\* How a run ended: it returned value, or it raised error. Neither run has a
\* return statement, so the value either returns is None.
NoRunResult == [kind |-> "none", error |-> "none", value |-> "None"]

\* What the latest pass through a track loop did: the path it took, the track
\* id it looked for, what the album response held for that track (whether it
\* had a data envelope, and the playcount fields of the entries with the
\* track's URI), and the run's counters before the pass.
NoStep ==
    [path |-> "none", slept |-> FALSE, errorsBefore |-> 0, writtenBefore |-> 0,
     processedBefore |-> 0, target |-> "", fetchOk |-> FALSE, data |-> FALSE,
     counters |-> <<>>, checksDown |-> {}]

IdleRun ==
    [pc |-> "idle", kind |-> "none", user_id |-> "none", day_iso |-> "none",
     search_token |-> "none", web_token |-> "none", client_token |-> "none",
     tracks |-> <<>>, idx |-> 0, processed |-> 0, errors |-> 0,
     total_playcount |-> 0, checked_count |-> 0, result |-> NoRunResult]

NoObs ==
    [lastStep |-> NoStep, token_calls |-> 0, sniff_calls |-> 0, search_calls |-> 0,
     fetch_calls |-> 0, search_failures |-> 0, written |-> <<>>, overwrote |-> FALSE,
     alerts |-> <<>>, connOpened |-> FALSE, tokens_used |-> {}]

EmptyTables == [streams |-> {}, health |-> {}]

InitRun ==
    /\ \/ /\ upstreamHealthy = FALSE
          /\ \E n \in 0..MaxTracks : \E m \in 0..n :
                track_dim = [i \in 1..n |-> TrackRow(i, i # m)]
       \/ /\ upstreamHealthy = TRUE
          /\ track_dim = [i \in 1..(BATCH_SIZE + 1) |-> TrackRow(i, TRUE)]
    /\ streams = {}
    /\ catalogue_health_status = {}
    /\ txStreams = {}
    /\ txHealth = {}
    /\ conn = "None"
    /\ run = IdleRun
    /\ obs = NoObs
    /\ lastCommit = EmptyTables
    /\ runsStarted = 0
    /\ endpoint \in {"run_streams", "run_health_check"}

RunOver == run.pc \in {"idle", "returned", "raised"}

\* run_streams_collection is called (lines 212-218): day_iso, conn = None.
StartStreams == \E day_override \in {"None"} :
    /\ endpoint = "run_streams"
    /\ RunOver
    /\ runsStarted < MaxRuns
    /\ runsStarted' = runsStarted + 1
    /\ run' = [IdleRun EXCEPT !.pc = "tokens", !.kind = "streams", !.user_id = "u1",
                              !.day_iso = IF day_override = "None" THEN "yesterday"
                                          ELSE day_override]
    /\ obs' = NoObs
    /\ conn' = "None"
    /\ UNCHANGED <<track_dim, streams, catalogue_health_status, txStreams, txHealth,
                   lastCommit, upstreamHealthy, endpoint, retryVars, orchVars, sniffVars, callVars>>

\* run_catalogue_health_check is called (lines 115-119): conn is not bound
\* until db_conn() returns.
StartHealth ==
    /\ endpoint = "run_health_check"
    /\ RunOver
    /\ runsStarted < MaxRuns
    /\ runsStarted' = runsStarted + 1
    /\ run' = [IdleRun EXCEPT !.pc = "setup", !.kind = "health", !.user_id = "u1",
                              !.day_iso = "today"]
    /\ obs' = NoObs
    /\ conn' = "unbound"
    /\ UNCHANGED <<track_dim, streams, catalogue_health_status, txStreams, txHealth,
                   lastCommit, upstreamHealthy, endpoint, retryVars, orchVars, sniffVars, callVars>>

\* Mutant: the error handler commits the open transaction instead of rolling
\* it back.
StreamsFatalCommits(r, o, err, connNow, d, t) ==
    /\ run' = [r EXCEPT !.pc = "raised", !.result = [kind |-> "raise", error |-> err,
                                                        value |-> "None"]]
    /\ obs' = [o EXCEPT !.alerts = Append(@, "error_alert")]
    /\ streams' = IF connNow = "open" THEN t.streams ELSE d.streams
    /\ catalogue_health_status' = d.health
    /\ txStreams' = IF connNow = "open" THEN t.streams ELSE d.streams
    /\ txHealth' = d.health
    /\ lastCommit' = d
    /\ conn' = IF connNow = "open" THEN "closed" ELSE connNow

\* The except and finally blocks of run_streams_collection (lines 298-306):
\* alert, rollback if a connection is open, re-raise, close. r and o are the
\* run as it stood when err was raised, d the tables as last committed, t the
\* tables as the transaction saw them.
StreamsFatal(r, o, err, connNow, d, t) ==
    /\ run' = [r EXCEPT !.pc = "raised", !.result = [kind |-> "raise", error |-> err,
                                                        value |-> "None"]]
    /\ obs' = [o EXCEPT !.alerts = Append(@, "error_alert")]
    /\ streams' = d.streams
    /\ catalogue_health_status' = d.health
    /\ txStreams' = d.streams
    /\ txHealth' = d.health
    /\ lastCommit' = d
    /\ conn' = IF connNow = "open" THEN "closed" ELSE connNow

\* The except and finally blocks of run_catalogue_health_check (lines 181-188).
\* With conn still unbound, "if conn:" itself raises UnboundLocalError, in the
\* except block and again in the finally block.
HealthFatal(r, o, err, connNow, d, t) ==
    /\ run' = [r EXCEPT !.pc = "raised",
                        !.result = [kind |-> "raise",
                                    error |-> IF connNow = "unbound"
                                              THEN "UnboundLocalError" ELSE err,
                                    value |-> "None"]]
    /\ obs' = o
    /\ streams' = d.streams
    /\ catalogue_health_status' = d.health
    /\ txStreams' = d.streams
    /\ txHealth' = d.health
    /\ lastCommit' = d
    /\ conn' = IF connNow = "open" THEN "closed" ELSE connNow

TxNow == [streams |-> txStreams, health |-> txHealth]

(***************************************************************************)
(* run_streams_collection (streams_service.py:212-306)                     *)
(***************************************************************************)

\* Mutant: a failed token flow is logged and the run goes on without the token.
AcquireTokensSwallowsFailure ==
    /\ run.pc = "tokens"
    /\ \E treq \in RequestsIn(upstreamHealthy), sn \in SniffOutcomesIn(upstreamHealthy) :
          /\ run' = [run EXCEPT !.pc = "connect",
                                !.search_token = IF treq.kind = "raise" THEN "none"
                                                 ELSE "srchTok",
                                !.web_token = sn.tok, !.client_token = sn.cli]
          /\ obs' = [obs EXCEPT !.token_calls = @ + 1, !.sniff_calls = @ + 1]
    /\ UNCHANGED <<track_dim, dbVars, runsStarted, upstreamHealthy, endpoint, retryVars,
                   orchVars, sniffVars, callVars>>

\* Lines 221-222: get_spotify_token through the retrying request, then
\* sniff_tokens. Either failure reaches the outer except with conn = None.
AcquireTokens ==
    /\ run.pc = "tokens"
    /\ \E treq \in RequestsIn(upstreamHealthy) :
          IF treq.kind = "raise"
          THEN StreamsFatal(run, [obs EXCEPT !.token_calls = @ + 1],
                            "get_spotify_token", conn, lastCommit, TxNow)
          ELSE \E sn \in SniffOutcomesIn(upstreamHealthy) :
                  IF sn.kind = "raise"
                  THEN StreamsFatal([run EXCEPT !.search_token = "srchTok"],
                                    [obs EXCEPT !.token_calls = @ + 1,
                                                !.sniff_calls = @ + 1],
                                    "sniff_tokens", conn, lastCommit, TxNow)
                  ELSE /\ run' = [run EXCEPT !.pc = "connect",
                                             !.search_token = "srchTok",
                                             !.web_token = sn.tok,
                                             !.client_token = sn.cli]
                       /\ obs' = [obs EXCEPT !.token_calls = @ + 1,
                                             !.sniff_calls = @ + 1]
                       /\ UNCHANGED dbVars
    /\ UNCHANGED <<track_dim, runsStarted, upstreamHealthy, endpoint, retryVars,
                   orchVars, sniffVars, callVars>>

\* Lines 225-236: db_conn(), open a cursor, SELECT the user's catalogue.
ConnectAndSelect == \E db \in {"ok", "connect_fails", "select_fails"} :
    /\ run.pc = "connect"
    /\ IF db = "connect_fails"
       THEN StreamsFatal(run, obs, "db_conn", conn, lastCommit, TxNow)
       ELSE IF db = "select_fails"
       THEN StreamsFatal(run, [obs EXCEPT !.connOpened = TRUE], "select", "open",
                         lastCommit, TxNow)
       ELSE /\ conn' = "open"
            /\ run' = [run EXCEPT !.pc = "loop", !.tracks = track_dim]
            /\ obs' = [obs EXCEPT !.connOpened = TRUE]
            /\ txStreams' = streams
            /\ txHealth' = catalogue_health_status
            /\ UNCHANGED <<streams, catalogue_health_status, lastCommit>>
    /\ UNCHANGED <<track_dim, runsStarted, upstreamHealthy, endpoint, retryVars,
                   orchVars, sniffVars, callVars>>

\* The playcount fields of the entries of items whose URI is the track's.
CountersOf(items, track_id) ==
    LET own == SelectSeq(items, LAMBDA item : item.uri = track_id)
    IN  [i \in 1..Len(own) |-> own[i].playcount]

\* One pass through the body of the track loop (lines 243-284), as far as it
\* depends on the upstream: which path it takes, whether it ends in
\* time.sleep(SPOTIFY_SLEEP), and the playcount it extracts.
TrackOutcome(track, sreq, items, freq, album) ==
    IF sreq.kind = "raise"
    THEN [path |-> "search_error", error |-> TRUE, slept |-> FALSE,
          fetched |-> FALSE, playcount |-> NoPlaycount, target |-> "",
          fetchOk |-> FALSE, data |-> FALSE, counters |-> <<>>]
    ELSE LET info == search_track(items, track.isrc) IN
         IF ~info.found
         THEN [path |-> "no_candidate", error |-> FALSE, slept |-> TRUE,
               fetched |-> FALSE, playcount |-> NoPlaycount, target |-> "",
               fetchOk |-> FALSE, data |-> FALSE, counters |-> <<>>]
         ELSE LET album_data == fetch_album(freq, album) IN
              IF album_data.union_null
              THEN \* None.get("tracksV2", {}) raises AttributeError
                   [path |-> "shape_error", error |-> TRUE, slept |-> FALSE,
                    fetched |-> TRUE, playcount |-> NoPlaycount,
                    target |-> info.track_id, fetchOk |-> freq.kind = "return",
                    data |-> album_data.data, counters |-> <<>>]
              ELSE LET pcount == ExtractPlaycount(album_data.items, info.track_id, 1)
                   IN  [path |-> IF pcount.found THEN "persisted"
                                 ELSE IF freq.kind = "raise" THEN "fetch_failed"
                                 ELSE "soft_null",
                        error |-> FALSE, slept |-> TRUE, fetched |-> TRUE,
                        playcount |-> pcount, target |-> info.track_id,
                        fetchOk |-> freq.kind = "return", data |-> album_data.data,
                        counters |-> CountersOf(album_data.items, info.track_id)]

StreamRow(track, r, playcount) ==
    [platform |-> "spotify", track_uid |-> track.track_uid, stream_date |-> r.day_iso,
     playcount |-> playcount, user_id |-> r.user_id]

StepOf(out) ==
    [path |-> out.path, slept |-> out.slept, errorsBefore |-> run.errors,
     writtenBefore |-> Len(obs.written), processedBefore |-> run.processed,
     target |-> out.target, fetchOk |-> out.fetchOk, data |-> out.data,
     counters |-> out.counters, checksDown |-> {}]

CallsOf(o, out) ==
    [o EXCEPT !.search_calls = @ + 1,
              !.fetch_calls = IF out.fetched THEN @ + 1 ELSE @,
              !.search_failures = IF out.path = "search_error" THEN @ + 1 ELSE @,
              !.tokens_used = @ \cup {<<run.search_token, run.web_token,
                                         run.client_token>>},
              !.lastStep = StepOf(out)]

\* Whether the upsert of row meets a row of the same key with another playcount.
OverwritesStream(table, row) ==
    \E r \in table : StreamKey(r) = StreamKey(row) /\ r.playcount # row.playcount

OverwritesHealth(table, row) ==
    \E r \in table : /\ HealthKey(r) = HealthKey(row)
                     /\ \/ r.apple_music_status # row.apple_music_status
                        \/ r.spotify_status # row.spotify_status

\* obs after the upsert of row.
Wrote(o, row, overwrites) ==
    [o EXCEPT !.written = Append(@, row), !.overwrote = @ \/ overwrites]

\* Mutant: the per-track handler re-raises, so the first failing track ends
\* the run.
ApplyTrackAbortsOnError(track, out) ==
    IF out.error
    THEN StreamsFatal(run, CallsOf(obs, out), "track_error", conn, lastCommit, TxNow)
    ELSE /\ run' = [run EXCEPT !.idx = @ + 1,
                               !.processed = IF out.playcount.found THEN @ + 1 ELSE @,
                               !.total_playcount = @ + out.playcount.value]
         /\ obs' = IF out.playcount.found
                   THEN Wrote(CallsOf(obs, out),
                              StreamRow(track, run, out.playcount.value),
                              OverwritesStream(txStreams,
                                  StreamRow(track, run, out.playcount.value)))
                   ELSE CallsOf(obs, out)
         /\ txStreams' = IF out.playcount.found
                         THEN UpsertStream(txStreams,
                                           StreamRow(track, run, out.playcount.value))
                         ELSE txStreams
         /\ UNCHANGED <<streams, catalogue_health_status, txHealth, conn, lastCommit>>

\* Mutant: after a per-track error the search token is requested again.
ApplyTrackRefetchesToken(track, out) ==
    /\ run' = [run EXCEPT !.idx = @ + 1,
                          !.errors = IF out.error THEN @ + 1 ELSE @,
                          !.processed = IF out.playcount.found THEN @ + 1 ELSE @,
                          !.total_playcount = @ + out.playcount.value,
                          !.search_token = IF out.error THEN "srchTok2" ELSE @]
    /\ obs' = IF out.playcount.found
              THEN Wrote(CallsOf(obs, out), StreamRow(track, run, out.playcount.value),
                         OverwritesStream(txStreams,
                                          StreamRow(track, run, out.playcount.value)))
              ELSE [CallsOf(obs, out) EXCEPT
                       !.token_calls = IF out.error THEN @ + 1 ELSE @]
    /\ txStreams' = IF out.playcount.found
                    THEN UpsertStream(txStreams,
                                      StreamRow(track, run, out.playcount.value))
                    ELSE txStreams
    /\ UNCHANGED <<streams, catalogue_health_status, txHealth, conn, lastCommit>>

\* The state change of one pass through the loop body: the upsert and the
\* counters of lines 268-278, or errors += 1 of line 284.
ApplyTrack(track, out) ==
    /\ run' = [run EXCEPT !.idx = @ + 1,
                          !.errors = IF out.error THEN @ + 1 ELSE @,
                          !.processed = IF out.playcount.found THEN @ + 1 ELSE @,
                          !.total_playcount = @ + out.playcount.value]
    /\ obs' = IF out.playcount.found
              THEN Wrote(CallsOf(obs, out), StreamRow(track, run, out.playcount.value),
                         OverwritesStream(txStreams,
                                          StreamRow(track, run, out.playcount.value)))
              ELSE CallsOf(obs, out)
    /\ txStreams' = IF out.playcount.found
                    THEN UpsertStream(txStreams,
                                      StreamRow(track, run, out.playcount.value))
                    ELSE txStreams
    /\ UNCHANGED <<streams, catalogue_health_status, txHealth, conn, lastCommit>>

\* Lines 242-284 for the next track of the catalogue.
ProcessTrack ==
    /\ run.pc = "loop"
    /\ run.kind = "streams"
    /\ run.idx < Len(run.tracks)
    /\ LET track == run.tracks[run.idx + 1] IN
       \E sreq \in RequestsIn(upstreamHealthy) :
          IF sreq.kind = "raise"
          THEN ApplyTrack(track, TrackOutcome(track, sreq, <<>>, FirstTryOk, EmptyAlbum))
          ELSE \E items \in SearchItemsIn(track, upstreamHealthy) :
                  IF ~search_track(items, track.isrc).found
                  THEN ApplyTrack(track, TrackOutcome(track, sreq, items, FirstTryOk,
                                                      EmptyAlbum))
                  ELSE \E freq \in RequestsIn(upstreamHealthy) :
                          IF freq.kind = "raise"
                          THEN ApplyTrack(track, TrackOutcome(track, sreq, items, freq,
                                                              EmptyAlbum))
                          ELSE \E album \in AlbumsIn(upstreamHealthy) :
                                  ApplyTrack(track, TrackOutcome(track, sreq, items,
                                                                 freq, album))
    /\ UNCHANGED <<track_dim, runsStarted, upstreamHealthy, endpoint, retryVars,
                   orchVars, sniffVars, callVars>>

\* Mutant: the alert looks at the total only.
ZeroTotalWhateverProcessed(processed, total_playcount) == total_playcount = 0

\* The condition of the zero-total alert (line 295).
ZeroTotalAnomaly(processed, total_playcount) == processed > 0 /\ total_playcount = 0

\* Lines 286-296 and the finally block: commit, refresh the materialized view,
\* commit, send the zero-total alert, close. The function returns None.
FinishStreams ==
    \E db \in {"ok", "commit_fails", "refresh_fails", "refresh_commit_fails"} :
    /\ run.pc = "loop"
    /\ run.kind = "streams"
    /\ run.idx = Len(run.tracks)
    /\ IF db = "commit_fails"
       THEN StreamsFatal(run, obs, "commit", conn, lastCommit, TxNow)
       ELSE IF db \in {"refresh_fails", "refresh_commit_fails"}
       THEN StreamsFatal(run, obs, db, conn, TxNow, TxNow)
       ELSE /\ streams' = txStreams
            /\ catalogue_health_status' = txHealth
            /\ lastCommit' = TxNow
            /\ conn' = "closed"
            /\ run' = [run EXCEPT !.pc = "returned",
                                  !.result = [kind |-> "return", error |-> "none",
                                              value |-> "None"]]
            /\ obs' = IF ZeroTotalAnomaly(run.processed, run.total_playcount)
                      THEN [obs EXCEPT !.alerts = Append(@, "zero_total_alert")]
                      ELSE obs
            /\ UNCHANGED <<txStreams, txHealth>>
    /\ UNCHANGED <<track_dim, runsStarted, upstreamHealthy, endpoint, retryVars,
                   orchVars, sniffVars, callVars>>

(***************************************************************************)
(* The availability checks (catalogue_health_service.py:31-113)            *)
(***************************************************************************)

\* A string of a search result, as far as a check reads it: whether it is
\* empty (or missing, which .get(key, '') turns into ''), and the ratio, in
\* hundredths, that difflib.SequenceMatcher gives it against the target it is
\* compared with.
Text(ratio) == [empty |-> FALSE, ratio |-> ratio]
NoText == [empty |-> TRUE, ratio |-> 0]

\* The title and the artist of the catalogue track being checked.
Target == Text(100)

\* similar(a, b), in hundredths (lines 31-35): 0.0 when either string is
\* empty, else the ratio of a against b.
similar(a, b) == IF a.empty \/ b.empty THEN 0 ELSE a.ratio

\* The threshold 0.85 of lines 73-74 and 103-104, in hundredths.
SIMILARITY_THRESHOLD == 85

\* Attempts of check_apple_music_api: range(3), line 47.
APPLE_ATTEMPTS == 3

\* Seconds per attempt number in the rate-limit wait of line 60.
APPLE_BACKOFF_STEP == 15

\* Seconds slept after a network error, line 84.
APPLE_ERROR_SLEEP == 5

\* Mutant: the album title is not accepted in place of the track title.
AppleMatchTrackTitleOnly(result, artist, title) ==
    /\ similar(result.artistName, artist) >= SIMILARITY_THRESHOLD
    /\ similar(result.trackName, title) >= SIMILARITY_THRESHOLD

\* The condition of lines 73-74 for one result.
AppleMatch(result, artist, title) ==
    /\ similar(result.artistName, artist) >= SIMILARITY_THRESHOLD
    /\ \/ similar(result.trackName, title) >= SIMILARITY_THRESHOLD
       \/ similar(result.collectionName, title) >= SIMILARITY_THRESHOLD

RECURSIVE AppleLoopNoCeiling(_, _, _, _, _, _)
\* Mutant: a rate-limited attempt is not counted against the three attempts.
AppleLoopNoCeiling(script, results, artist, title, attempt, waits) ==
    IF attempt >= Len(script)
    THEN [kind |-> "return", value |-> FALSE, requests |-> attempt, waits |-> waits]
    ELSE LET a == script[attempt + 1] IN
         IF a.resp = "403"
         THEN AppleLoopNoCeiling(script, results, artist, title, attempt + 1,
                  Append(waits, [cause |-> "rate_limit", attempt |-> attempt,
                                 seconds |-> (attempt + 1) * APPLE_BACKOFF_STEP + a.jitter,
                                 jitter |-> a.jitter]))
         ELSE IF a.resp = "error"
         THEN IF attempt < APPLE_ATTEMPTS - 1
              THEN AppleLoopNoCeiling(script, results, artist, title, attempt + 1,
                       Append(waits, [cause |-> "error", attempt |-> attempt,
                                      seconds |-> APPLE_ERROR_SLEEP, jitter |-> 0]))
              ELSE [kind |-> "return", value |-> FALSE, requests |-> attempt + 1,
                    waits |-> waits]
         ELSE [kind |-> "return",
               value |-> \E i \in 1..Len(results) : AppleMatch(results[i], artist, title),
               requests |-> attempt + 1, waits |-> waits]

RECURSIVE AppleLoop(_, _, _, _, _, _)
\* The for loop of lines 47-89 from attempt on. script[k] is the upstream's
\* answer to the k-th request: "403", "error" (requests.get or
\* raise_for_status raises a RequestException) or "ok" (a JSON body holding
\* results), with the random.uniform(0, 5) drawn if the answer is 403. waits
\* lists the calls of time.sleep so far.
AppleLoop(script, results, artist, title, attempt, waits) ==
    IF attempt >= APPLE_ATTEMPTS
    THEN [kind |-> "return", value |-> FALSE, requests |-> attempt, waits |-> waits]
    ELSE LET a == script[attempt + 1] IN
         IF a.resp = "403"
         THEN AppleLoop(script, results, artist, title, attempt + 1,
                  Append(waits, [cause |-> "rate_limit", attempt |-> attempt,
                                 seconds |-> (attempt + 1) * APPLE_BACKOFF_STEP + a.jitter,
                                 jitter |-> a.jitter]))
         ELSE IF a.resp = "error"
         THEN IF attempt < APPLE_ATTEMPTS - 1
              THEN AppleLoop(script, results, artist, title, attempt + 1,
                       Append(waits, [cause |-> "error", attempt |-> attempt,
                                      seconds |-> APPLE_ERROR_SLEEP, jitter |-> 0]))
              ELSE [kind |-> "return", value |-> FALSE, requests |-> attempt + 1,
                    waits |-> waits]
         ELSE [kind |-> "return",
               value |-> \E i \in 1..Len(results) : AppleMatch(results[i], artist, title),
               requests |-> attempt + 1, waits |-> waits]

check_apple_music_api(script, results, artist, title) ==
    AppleLoop(script, results, artist, title, 0, <<>>)

\* Mutant: the title may match on one candidate and the artist on another.
SpotifyMatchAcrossItems(items, artist, title) ==
    /\ \E i \in 1..Len(items) : similar(items[i].name, title) >= SIMILARITY_THRESHOLD
    /\ \E i \in 1..Len(items) : \E k \in 1..Len(items[i].artists) :
          similar(items[i].artists[k], artist) >= SIMILARITY_THRESHOLD

\* The loop of lines 99-106: some candidate matches by title and by one of its
\* own artists.
SpotifyMatch(items, artist, title) ==
    \E i \in 1..Len(items) :
       /\ similar(items[i].name, title) >= SIMILARITY_THRESHOLD
       /\ \E k \in 1..Len(items[i].artists) :
             similar(items[i].artists[k], artist) >= SIMILARITY_THRESHOLD

\* Mutant: an exception of the search leaves the check.
check_spotify_api_raises(search, artist, title) ==
    IF search.kind = "raise"
    THEN [kind |-> "raise", value |-> FALSE]
    ELSE [kind |-> "return", value |-> SpotifyMatch(search.items, artist, title)]

\* check_spotify_api (lines 91-113): search is what sp_client.search did, the
\* items it returned or the exception it raised; "except Exception" turns
\* every exception into False.
check_spotify_api(search, artist, title) ==
    IF search.kind = "raise"
    THEN [kind |-> "return", value |-> FALSE]
    ELSE [kind |-> "return", value |-> SpotifyMatch(search.items, artist, title)]

\* An iTunes upstream that gives every request the same answer.
AppleAlways(resp) == [i \in 1..ScriptLen |-> [resp |-> resp, jitter |-> 0]]

AppleUp == AppleAlways("ok")

\* A title or an artist of track_dim as the checks compare it.
TextOf(str) == [empty |-> str = "", ratio |-> 100]

\* The iTunes upstream as one track of a run meets it: up with a matching
\* result, up with none, or rate limiting and failing its requests by turns.
AppleChecksIn(healthy) ==
    LET hit == <<[artistName |-> Text(90), trackName |-> Text(90),
                  collectionName |-> Text(90)]>>
    IN  {[script |-> AppleUp, results |-> hit]}
        \cup (IF healthy THEN {}
              ELSE {[script |-> AppleUp, results |-> <<>>],
                    [script |-> [i \in 1..ScriptLen |->
                                   [resp |-> IF i % 2 = 1 THEN "403" ELSE "error",
                                    jitter |-> 5]],
                     results |-> hit]})

\* sp_client.search as one track of a run meets it.
SpotifyChecksIn(healthy) ==
    {[kind |-> "return", items |-> <<[name |-> Text(90), artists |-> <<Text(90)>>]>>]}
    \cup (IF healthy THEN {}
          ELSE {[kind |-> "return", items |-> <<>>], [kind |-> "raise", items |-> <<>>]})

\* The checks that got no answer from their upstream: no "ok" to any of the
\* Apple check's attempts, an exception from the Spotify search.
ChecksDown(ap, sp) ==
    (IF \A k \in 1..APPLE_ATTEMPTS : ap.script[k].resp # "ok" THEN {"apple"} ELSE {})
    \cup (IF sp.kind = "raise" THEN {"spotify"} ELSE {})

(***************************************************************************)
(* run_catalogue_health_check (catalogue_health_service.py:115-188)        *)
(***************************************************************************)

\* Lines 121-142: build the Spotify client, db_conn(), SELECT the catalogue.
HealthSetup == \E s \in {"ok", "client_fails", "connect_fails", "select_fails"} :
    /\ run.pc = "setup"
    /\ IF s \in {"client_fails", "connect_fails"}
       THEN HealthFatal(run, obs, s, conn, lastCommit, TxNow)
       ELSE IF s = "select_fails"
       THEN HealthFatal(run, [obs EXCEPT !.connOpened = TRUE], "select", "open",
                        lastCommit, TxNow)
       ELSE /\ conn' = "open"
            /\ run' = [run EXCEPT !.pc = "loop", !.tracks = track_dim]
            /\ obs' = [obs EXCEPT !.connOpened = TRUE]
            /\ txStreams' = streams
            /\ txHealth' = catalogue_health_status
            /\ UNCHANGED <<streams, catalogue_health_status, lastCommit>>
    /\ UNCHANGED <<track_dim, runsStarted, upstreamHealthy, endpoint, retryVars,
                   orchVars, sniffVars, callVars>>

HealthRow(track, r, apple, spotify) ==
    [check_date |-> r.day_iso, track_uid |-> track.track_uid,
     apple_music_status |-> apple, spotify_status |-> spotify, user_id |-> r.user_id]

\* Lines 144-176 for the next track: skip a track without title or artist;
\* otherwise both checks, the upsert, and a commit after every BATCH_SIZE-th
\* checked track.
HealthTrack ==
    /\ run.pc = "loop"
    /\ run.kind = "health"
    /\ run.idx < Len(run.tracks)
    /\ LET track == run.tracks[run.idx + 1] IN
       IF track.title = "" \/ track.artist = ""
       THEN /\ run' = [run EXCEPT !.idx = @ + 1]
            /\ obs' = [obs EXCEPT !.lastStep = [NoStep EXCEPT !.path = "skipped"]]
            /\ UNCHANGED dbVars
       ELSE \E ap \in AppleChecksIn(upstreamHealthy),
               sp \in SpotifyChecksIn(upstreamHealthy),
               db \in {"ok", "insert_fails", "commit_fails"} :
            LET apple_exists == check_apple_music_api(ap.script, ap.results,
                                    TextOf(track.artist), TextOf(track.title))
                spotify_exists == check_spotify_api(sp, TextOf(track.artist),
                                                    TextOf(track.title))
                row    == HealthRow(track, run, apple_exists.value,
                                    spotify_exists.value)
                count  == run.checked_count + 1
                newTx  == [streams |-> txStreams,
                           health |-> UpsertHealth(txHealth, row)]
                r2     == [run EXCEPT !.idx = @ + 1, !.checked_count = count]
                o2     == [Wrote(obs, row, OverwritesHealth(txHealth, row)) EXCEPT
                              !.lastStep = [NoStep EXCEPT
                                               !.path = "checked", !.slept = TRUE,
                                               !.errorsBefore = run.errors,
                                               !.writtenBefore = Len(obs.written),
                                               !.checksDown = ChecksDown(ap, sp)]]
            IN  IF apple_exists.kind = "raise" \/ spotify_exists.kind = "raise"
                THEN \* an exception of a check would reach the outer except
                     HealthFatal(run,
                         [obs EXCEPT !.lastStep =
                             [NoStep EXCEPT !.path = "check_raised",
                                            !.errorsBefore = run.errors,
                                            !.writtenBefore = Len(obs.written),
                                            !.checksDown = ChecksDown(ap, sp)]],
                         "check", conn, lastCommit, TxNow)
                ELSE IF db = "insert_fails"
                THEN HealthFatal(run, obs, "insert", conn, lastCommit, TxNow)
                ELSE IF count % BATCH_SIZE = 0
                THEN IF db = "commit_fails"
                     THEN HealthFatal(r2, o2, "commit", conn, lastCommit, newTx)
                     ELSE /\ run' = r2
                          /\ obs' = o2
                          /\ txStreams' = newTx.streams
                          /\ txHealth' = newTx.health
                          /\ streams' = newTx.streams
                          /\ catalogue_health_status' = newTx.health
                          /\ lastCommit' = newTx
                          /\ UNCHANGED conn
                ELSE /\ db = "ok"
                     /\ run' = r2
                     /\ obs' = o2
                     /\ txStreams' = newTx.streams
                     /\ txHealth' = newTx.health
                     /\ UNCHANGED <<streams, catalogue_health_status, lastCommit, conn>>
    /\ UNCHANGED <<track_dim, runsStarted, upstreamHealthy, endpoint, retryVars,
                   orchVars, sniffVars, callVars>>

\* Lines 178-179 and the finally block: the last commit, then close.
HealthFinish == \E db \in {"ok", "commit_fails"} :
    /\ run.pc = "loop"
    /\ run.kind = "health"
    /\ run.idx = Len(run.tracks)
    /\ IF db = "commit_fails"
       THEN HealthFatal(run, obs, "commit", conn, lastCommit, TxNow)
       ELSE /\ streams' = txStreams
            /\ catalogue_health_status' = txHealth
            /\ lastCommit' = TxNow
            /\ conn' = "closed"
            /\ run' = [run EXCEPT !.pc = "returned",
                                  !.result = [kind |-> "return", error |-> "none",
                                              value |-> "None"]]
            /\ obs' = obs
            /\ UNCHANGED <<txStreams, txHealth>>
    /\ UNCHANGED <<track_dim, runsStarted, upstreamHealthy, endpoint, retryVars,
                   orchVars, sniffVars, callVars>>

(***************************************************************************)
(* Single calls of the functions that read no state                        *)
(***************************************************************************)

NotReturned == [kind |-> "not_called"]

\* No function of this section is called.
NoCalls == args = [fn |-> "none"] /\ ret = NotReturned

\* Longest list (response entries, search candidates, results) a call is given.
MaxItems == 2

\* All sequences over S of length at most n.
SeqsUpTo(S, n) == UNION {[1..k -> S] : k \in 0..n}

\* Counter fields an album entry may carry: absent, numbers, digit strings and
\* strings that are not numbers.
CallRaws ==
    {RawNone, RawInt(0), RawInt(12), RawInt(-1), RawStr(<<"0">>), RawStr(<<"1", "2">>),
     RawStr(<<"a">>), RawStr(<<"1", "a">>), RawStr(<<>>)}

\* Calls of the playcount extraction (streams_service.py:259-266) for track
\* "trkA" over a list of album entries.
ExtractCalls ==
    {[fn |-> "extract_playcount", track_id |-> "trkA", items |-> items] :
        items \in SeqsUpTo({AlbumItem(uri, raw) : uri \in {"trkA", "trkB"},
                                                  raw \in CallRaws}, MaxItems)}

CallExtractPlaycount ==
    /\ args.fn = "extract_playcount"
    /\ ret = NotReturned
    /\ ret' = [kind |-> "return",
               value |-> ExtractPlaycount(args.items, args.track_id, 1)]
    /\ UNCHANGED <<args, retryVars, orchVars, sniffVars, runVars>>

\* Search candidates: with or without a track id and an album id, carrying the
\* requested ISRC in either case, another ISRC, or none (code 0).
Candidates ==
    {[id |-> id, album_id |-> album_id, isrc |-> isrc] :
        id \in {"", "trkA", "trkB"}, album_id \in {"", "albA"},
        isrc \in {[code |-> 1, case |-> "lower"], [code |-> 1, case |-> "upper"],
                  [code |-> 2, case |-> "upper"], [code |-> 0, case |-> "upper"]}}

\* Calls of search_track whose request returned: the candidates of the response
\* and the requested ISRC.
SearchCalls ==
    {[fn |-> "search_track", isrc |-> [code |-> 1, case |-> c], items |-> items] :
        c \in {"lower", "upper"}, items \in SeqsUpTo(Candidates, MaxItems)}

CallSearchTrack ==
    /\ args.fn = "search_track"
    /\ ret = NotReturned
    /\ ret' = [kind |-> "return", value |-> search_track(args.items, args.isrc)]
    /\ UNCHANGED <<args, retryVars, orchVars, sniffVars, runVars>>

\* The upstream's answers to the requests of one Apple check, one per attempt
\* it could make; a 403 comes with the jitter drawn for its wait.
AppleAnswers ==
    {[resp |-> "ok", jitter |-> 0], [resp |-> "error", jitter |-> 0],
     [resp |-> "403", jitter |-> 0], [resp |-> "403", jitter |-> 5]}

AppleScripts == [1..ScriptLen -> AppleAnswers]

\* Results of an iTunes search: artist, track and album names at ratios on
\* either side of the threshold, the track name possibly missing.
AppleResults ==
    {[artistName |-> a, trackName |-> t, collectionName |-> c] :
        a \in {Text(80), Text(90)}, t \in {Text(80), Text(85), NoText},
        c \in {Text(84), Text(90)}}

\* Calls of check_apple_music_api: every script against a fixed result list,
\* and every result list against an upstream that answers at once.
AppleCalls ==
    {[fn |-> "check_apple_music_api", script |-> s, results |-> r] :
        s \in AppleScripts,
        r \in {<<>>, <<[artistName |-> Text(90), trackName |-> Text(90),
                        collectionName |-> Text(90)]>>}}
    \cup {[fn |-> "check_apple_music_api", script |-> AppleUp, results |-> r] :
             r \in SeqsUpTo(AppleResults, MaxItems)}

CallCheckApple ==
    /\ args.fn = "check_apple_music_api"
    /\ ret = NotReturned
    /\ ret' = check_apple_music_api(args.script, args.results, Target, Target)
    /\ UNCHANGED <<args, retryVars, orchVars, sniffVars, runVars>>

\* Candidates of a Spotify search: a name and the names of its artists.
SpotifyItems ==
    {[name |-> n, artists |-> as] :
        n \in {Text(80), Text(90), NoText},
        as \in {<<>>, <<Text(80)>>, <<Text(90)>>, <<Text(80), Text(90)>>}}

\* Calls of check_spotify_api: the search raises, or returns candidates.
SpotifyCalls ==
    {[fn |-> "check_spotify_api", search |-> [kind |-> "raise", items |-> <<>>]]}
    \cup {[fn |-> "check_spotify_api", search |-> [kind |-> "return", items |-> items]] :
             items \in SeqsUpTo(SpotifyItems, MaxItems)}

CallCheckSpotify ==
    /\ args.fn = "check_spotify_api"
    /\ ret = NotReturned
    /\ ret' = check_spotify_api(args.search, Target, Target)
    /\ UNCHANGED <<args, retryVars, orchVars, sniffVars, runVars>>

\* Longest string a call of similar is given.
MaxStrLen == 2

\* The characters of those strings: two letters in both cases, and the
\* lower-case letter sharp s ("sz"), whose upper case is the two letters SS.
Chars == {"a", "A", "s", "S", "sz"}

\* str.lower() of one character: sharp s is lower case already.
LowerChar(c) == IF c = "A" THEN "a" ELSE IF c = "S" THEN "s" ELSE c

\* str.lower() (line 35)
StrLower(cs) == [i \in 1..Len(cs) |-> LowerChar(cs[i])]

RECURSIVE RunLength(_, _, _, _)
\* Length of the longest common run of a from i and b from j.
RunLength(a, b, i, j) ==
    IF i > Len(a) \/ j > Len(b) \/ a[i] # b[j] THEN 0
    ELSE 1 + RunLength(a, b, i + 1, j + 1)

\* SequenceMatcher.find_longest_match: the longest block a[i..i+k-1] =
\* b[j..j+k-1], of those the one earliest in a, of those the one earliest in b.
LongestMatch(a, b) ==
    LET blocks == {[i |-> i, j |-> j, k |-> RunLength(a, b, i, j)] :
                      i \in 1..Len(a), j \in 1..Len(b)}
    IN  CHOOSE m \in blocks :
           \A n \in blocks :
              \/ m.k > n.k
              \/ m.k = n.k /\ m.i < n.i
              \/ m.k = n.k /\ m.i = n.i /\ m.j <= n.j

RECURSIVE MatchedChars(_, _)
\* The characters in SequenceMatcher.get_matching_blocks: the longest block,
\* then the same to its left and to its right.
MatchedChars(a, b) ==
    IF Len(a) = 0 \/ Len(b) = 0 THEN 0
    ELSE LET m == LongestMatch(a, b) IN
         IF m.k = 0 THEN 0
         ELSE m.k + MatchedChars(SubSeq(a, 1, m.i - 1), SubSeq(b, 1, m.j - 1))
                  + MatchedChars(SubSeq(a, m.i + m.k, Len(a)),
                                 SubSeq(b, m.j + m.k, Len(b)))

\* similar(a, b) on strings (lines 31-35), as the fraction num/den:
\* 0.0 for an empty argument, else ratio() = 2 * matches / (len(a) + len(b)) of
\* the lower-cased strings.
similar_strings(a, b) ==
    IF Len(a) = 0 \/ Len(b) = 0 THEN [num |-> 0, den |-> 1]
    ELSE [num |-> 2 * MatchedChars(StrLower(a), StrLower(b)), den |-> Len(a) + Len(b)]

SimilarCalls ==
    {[fn |-> "similar", a |-> a, b |-> b] : a, b \in SeqsUpTo(Chars, MaxStrLen)}

CallSimilar ==
    /\ args.fn = "similar"
    /\ ret = NotReturned
    /\ ret' = [kind |-> "return", value |-> similar_strings(args.a, args.b)]
    /\ UNCHANGED <<args, retryVars, orchVars, sniffVars, runVars>>

(***************************************************************************)
(* Specifications                                                          *)
(***************************************************************************)

IdleRuns ==
    /\ track_dim = <<>>
    /\ streams = {}
    /\ catalogue_health_status = {}
    /\ txStreams = {}
    /\ txHealth = {}
    /\ conn = "None"
    /\ run = IdleRun
    /\ obs = NoObs
    /\ lastCommit = EmptyTables
    /\ runsStarted = 0
    /\ upstreamHealthy = FALSE
    /\ endpoint = "run_streams"

InitRetryOnly == InitRetry /\ InitOrch /\ InitSniff /\ IdleRuns /\ NoCalls

NextRetry == CallRequest

SpecRetry == InitRetryOnly /\ [][NextRetry]_vars

InitOrchOnly ==
    /\ InitOrch
    /\ reqScript = [i \in 1..ScriptLen |-> "ok"]
    /\ reqResult = NotCalled
    /\ InitSniff
    /\ IdleRuns
    /\ NoCalls

NextOrch == RunManual \/ ThreadEnds

SpecOrch == InitOrchOnly /\ [][NextOrch]_vars

NextSniff == SniffLaunch \/ OnResponse \/ PageGoto \/ WaitResult \/ WaitTimeout
             \/ BrowserClose

SpecSniff == InitOrchOnly /\ [][NextSniff]_vars

Init ==
    /\ InitOrch
    /\ reqScript = [i \in 1..ScriptLen |-> "ok"]
    /\ reqResult = NotCalled
    /\ InitSniff
    /\ InitRun
    /\ NoCalls

Next == StartStreams \/ AcquireTokens \/ ConnectAndSelect \/ ProcessTrack
        \/ FinishStreams \/ StartHealth \/ HealthSetup \/ HealthTrack \/ HealthFinish

Spec == Init /\ [][Next]_vars

\* One call of one of the functions that read no state, on arguments drawn from
\* the sets above.
InitCalls ==
    /\ InitOrch
    /\ reqScript = [i \in 1..ScriptLen |-> "ok"]
    /\ reqResult = NotCalled
    /\ InitSniff
    /\ IdleRuns
    /\ args \in ExtractCalls \cup SearchCalls \cup AppleCalls \cup SpotifyCalls
                \cup SimilarCalls
    /\ ret = NotReturned

NextCalls == CallExtractPlaycount \/ CallSearchTrack \/ CallCheckApple
             \/ CallCheckSpotify \/ CallSimilar

SpecCalls == InitCalls /\ [][NextCalls]_vars

(***************************************************************************)
(* Claims                                                                  *)
(***************************************************************************)

\* C1 (SpecOrch): at no time are two runs started by POST /run executing for
\* the same user; a request arriving while that user's run is in flight is
\* answered 429 and starts nothing.
C1_OneRunPerUser ==
    /\ \A t1, t2 \in threads : t1.user = t2.user => t1 = t2
    /\ \A t \in threads :
          (lastResponse.user = t.user /\ lastResponse.started # t.id)
              => lastResponse.status \in {403, 429}

\* C2 (Spec): each snapshot table, committed or as the open transaction sees
\* it, holds at most one row per key, and when a run has returned, every key it
\* wrote holds the value that run wrote, whatever an earlier run left there.
C2_OneRowPerKeyLastWriteWins ==
    /\ \A table \in {streams, txStreams} : \A r1, r2 \in table :
          StreamKey(r1) = StreamKey(r2) => r1 = r2
    /\ \A table \in {catalogue_health_status, txHealth} : \A r1, r2 \in table :
          HealthKey(r1) = HealthKey(r2) => r1 = r2
    /\ (run.pc = "returned" /\ run.kind = "streams") =>
          \A i \in 1..Len(obs.written) : \E r \in streams :
              /\ StreamKey(r) = StreamKey(obs.written[i])
              /\ r.playcount = obs.written[i].playcount
    /\ (run.pc = "returned" /\ run.kind = "health") =>
          \A i \in 1..Len(obs.written) : \E r \in catalogue_health_status :
              /\ HealthKey(r) = HealthKey(obs.written[i])
              /\ r.apple_music_status = obs.written[i].apple_music_status
              /\ r.spotify_status = obs.written[i].spotify_status

\* C2 witness: a second run has returned after overwriting, with another value,
\* a key an earlier run had committed.
C2_Witness ==
    /\ run.pc = "returned"
    /\ runsStarted >= 2
    /\ obs.overwrote
    /\ Cardinality(streams) + Cardinality(catalogue_health_status) = Len(obs.written)

\* C3 (SpecRetry): when the upstream fails every attempt, the call makes
\* exactly 3 attempts and raises; it returns no response.
C3_ThreeAttemptsThenRaise ==
    (reqResult.kind # "not_called" /\ \A k \in 1..3 : reqScript[k] # "ok")
        => (reqResult.kind = "raise" /\ reqResult.attempts = 3)

\* C3 witness: a call against an always-failing upstream has raised after its
\* third attempt.
C3_Witness ==
    /\ \A k \in 1..ScriptLen : reqScript[k] # "ok"
    /\ reqResult.kind = "raise"
    /\ reqResult.attempts = 3

\* C4 (SpecRetry): the failure raised on exhaustion is a failure of its own,
\* not the error of the last failed attempt.
C4_ExhaustionIsItsOwnFailure ==
    reqResult.kind = "raise"
        => reqResult.error # AttemptError(reqScript[reqResult.attempts],
                                          reqResult.attempts - 1)

\* C5 (Spec): when a metrics run fails fatally after more than 10 tracks were
\* persisted, the rows of the first batch of 10 are durable.
C5_StreamsBatchesDurable ==
    (run.kind = "streams" /\ run.pc = "raised" /\ Len(obs.written) > BATCH_SIZE)
        => \A i \in 1..BATCH_SIZE : obs.written[i] \in streams

\* C6 (Spec): when a run fails after it opened its connection, the tables are
\* exactly what its latest commit left (the rows written since are gone, the
\* rows committed before stay), the connection is closed, and the failure that
\* occurred is the one the caller gets.
C6_FatalRollsBackUncommitted ==
    (run.pc = "raised" /\ obs.connOpened) =>
        /\ conn = "closed"
        /\ streams = lastCommit.streams
        /\ catalogue_health_status = lastCommit.health
        /\ txStreams = streams
        /\ txHealth = catalogue_health_status
        /\ run.result.kind = "raise"
        /\ run.result.error \in {"select", "insert", "commit", "refresh_fails",
                                 "refresh_commit_fails"}

\* C6 witness: the first run of a behaviour failed after it wrote more than one
\* batch: the rows of its first batch are in the table, committed, and the row
\* it wrote after that commit is not.
C6_Witness ==
    /\ runsStarted = 1
    /\ run.pc = "raised"
    /\ obs.connOpened
    /\ conn = "closed"
    /\ Len(obs.written) > BATCH_SIZE
    /\ \A i \in 1..BATCH_SIZE : obs.written[i] \in catalogue_health_status
    /\ obs.written[Len(obs.written)] \notin catalogue_health_status

\* C7 (Spec): a metrics run that is past its token step without both tokens
\* has failed: it raised, searched for no track, queried no album, wrote no
\* row and left the table as it was.
C7_TokenFailureAbortsRun ==
    (/\ run.kind = "streams"
     /\ run.pc # "tokens"
     /\ (run.search_token = "none" \/ run.web_token = "none"))
        => /\ run.pc = "raised"
           /\ run.result.kind = "raise"
           /\ run.result.error \in {"get_spotify_token", "sniff_tokens"}
           /\ run.idx = 0
           /\ obs.search_calls = 0
           /\ obs.fetch_calls = 0
           /\ obs.written = <<>>
           /\ conn = "None"
           /\ streams = lastCommit.streams

\* C7 witness: the browser capture failed after the search token was obtained,
\* and the run raised.
C7_Witness ==
    /\ run.pc = "raised"
    /\ run.result.error = "sniff_tokens"
    /\ run.search_token # "none"
    /\ obs.sniff_calls = 1

\* C8 (SpecSniff): once the wait has begun, sniff_tokens neither returns nor
\* raises with the browser still open, and after a timeout it raises and hands
\* out no token.
C8_BrowserClosedOnBothPaths ==
    /\ (sniffPc \in {"returned", "raised"}
        /\ sniffResult.error \notin {"launch_error", "goto_error"})
          => browser = "closed"
    /\ (sniffPc \in {"returned", "raised"} /\ fut.state = "cancelled")
          => (sniffPc = "raised" /\ sniffResult.kind = "raise"
              /\ sniffResult.tok = "none")
    /\ sniffPc = "returned" => (sniffResult.kind = "return" /\ fut.state = "result")

\* C8 witness: responses were observed, none fulfilled the future, the timeout
\* fired, and sniff_tokens raised with the browser closed.
C8_Witness ==
    /\ sniffPc = "raised"
    /\ sniffResult.error = "TimeoutError"
    /\ delivered > 0
    /\ browser = "closed"

\* C9 (Spec): a track whose search failed adds one to the error count and
\* writes no row, the run is not ended by it, and a run that leaves the loop has
\* searched for every track of the catalogue.
C9_SearchFailureDoesNotAbort ==
    /\ obs.lastStep.path = "search_error" =>
          /\ run.errors = obs.lastStep.errorsBefore + 1
          /\ Len(obs.written) = obs.lastStep.writtenBefore
          /\ run.result.error # "track_error"
    /\ (run.kind = "streams" /\ obs.search_failures > 0) =>
          /\ run.pc \in {"loop", "returned", "raised"}
          /\ run.pc \in {"returned", "raised"} =>
                (run.idx = Len(run.tracks) /\ obs.search_calls = Len(run.tracks))

\* C9 witness: a run returned in which a search failed and a later track was
\* persisted.
C9_Witness ==
    /\ run.pc = "returned"
    /\ obs.search_failures > 0
    /\ obs.lastStep.path = "persisted"
    /\ obs.search_calls = Len(run.tracks)

\* C10 (Spec): a track whose metrics request failed after its retries adds one
\* to the error count.
C10_FetchFailureCounted ==
    obs.lastStep.path = "fetch_failed"
        => run.errors = obs.lastStep.errorsBefore + 1

\* C11 (Spec): when the metrics request of a resolved track succeeds and the
\* response is well-formed but holds no metric (no data envelope, no entry
\* with the target URI, or a counter that is missing or not numeric), the pass
\* writes no row and changes neither the processed count nor the error count.
C11_SoftNullChangesNothing ==
    LET s == obs.lastStep IN
    (/\ run.kind = "streams"
     /\ s.fetchOk
     /\ s.path # "shape_error"
     /\ \/ ~s.data
        \/ \A i \in 1..Len(s.counters) :
              \/ s.counters[i].type = "none"
              \/ s.counters[i].type = "str" /\ ~IsDigit(s.counters[i].chars))
        => /\ run.errors = s.errorsBefore
           /\ run.processed = s.processedBefore
           /\ Len(obs.written) = s.writtenBefore

\* A second run meets a non-numeric counter for a track whose key holds a row
\* of the first run.
C11_Witness ==
    LET s == obs.lastStep IN
    /\ run.kind = "streams"
    /\ runsStarted = 2
    /\ s.fetchOk
    /\ s.data
    /\ Len(s.counters) > 0
    /\ \A i \in 1..Len(s.counters) :
          s.counters[i].type = "str" /\ ~IsDigit(s.counters[i].chars)
    /\ \E r \in txStreams : r.track_uid = run.tracks[run.idx].track_uid

\* C12 (SpecCalls): for the one response entry whose URI is the target's,
\* the counter is extracted exactly when the field is present and is a
\* non-negative integer, given as a number or as a digit string, zero
\* included; the extracted value is that integer.
C12_CounterExtractedWhenValid ==
    (args.fn = "extract_playcount" /\ ret.kind = "return")
        => LET entries == {i \in 1..Len(args.items) :
                              args.items[i].uri = args.track_id}
           IN  \A i \in entries :
                  entries = {i} =>
                     LET raw   == args.items[i].playcount
                         valid == \/ raw.type = "int" /\ raw.num >= 0
                                  \/ raw.type = "str" /\ IsDigit(raw.chars)
                         n     == IF raw.type = "int" THEN raw.num
                                  ELSE ParseInt(raw.chars)
                     IN  /\ ret.value.found = valid
                         /\ valid => ret.value.value = n

\* C13 (Spec): a metrics run that completes sends the zero-total alert exactly
\* when it persisted at least one row and every counter it persisted is zero;
\* a run that persisted nothing sends none.
C13_ZeroTotalAlertIffPersistedZero ==
    (run.kind = "streams" /\ run.pc = "returned")
        => ((\E i \in 1..Len(obs.alerts) : obs.alerts[i] = "zero_total_alert")
            <=> (/\ Len(obs.written) > 0
                 /\ \A i \in 1..Len(obs.written) : obs.written[i].playcount = 0))

\* A completed run over two tracks that persisted a zero for each and alerted.
C13_Witness ==
    /\ run.kind = "streams"
    /\ run.pc = "returned"
    /\ Len(obs.written) = 2
    /\ \A i \in 1..Len(obs.written) : obs.written[i].playcount = 0
    /\ obs.alerts = <<"zero_total_alert">>

\* C14 (Spec): when the metrics run of a synchronization completes, the caller
\* gets an outcome that carries a status and the run's processed and error
\* counts, from run_streams_collection or from run_all_tasks.
C14_OutcomeCarriesCounts ==
    (run.kind = "streams" /\ run.pc = "returned")
        => LET out == run_all_tasks(run.user_id, run.result, "ok")
           IN  \/ /\ run.result.value # "None"
                  /\ run.result.value.processed_count = run.processed
                  /\ run.result.value.error_count = run.errors
               \/ /\ "status" \in DOMAIN out
                  /\ "processed_count" \in DOMAIN out
                  /\ "error_count" \in DOMAIN out
                  /\ out.processed_count = run.processed
                  /\ out.error_count = run.errors

\* C15 (Spec): when a track's availability check gets no answer from its
\* upstream (network errors, rate limiting or API errors on every attempt),
\* the check answers False instead of raising: the health run writes the
\* track's row with that status False and goes on.
C15_FailedCheckIsNotFound ==
    LET s == obs.lastStep IN
    (run.kind = "health" /\ s.checksDown # {})
        => /\ s.path = "checked"
           /\ Len(obs.written) = s.writtenBefore + 1
           /\ LET row == obs.written[Len(obs.written)] IN
                 /\ row.track_uid = run.tracks[run.idx].track_uid
                 /\ "apple" \in s.checksDown => row.apple_music_status = FALSE
                 /\ "spotify" \in s.checksDown => row.spotify_status = FALSE
           /\ run.result.error # "check"

\* Both checks of the first track failed, and the run went on to write the
\* row of the second track.
C15_Witness ==
    /\ run.kind = "health"
    /\ Len(obs.written) = 2
    /\ obs.written[1].apple_music_status = FALSE
    /\ obs.written[1].spotify_status = FALSE
    /\ obs.written[1] \in txHealth
    /\ obs.lastStep.checksDown = {"apple", "spotify"}
    /\ run.idx = 2

\* C16 (SpecCalls): in the Apple check, a rate-limiting answer to attempt k
\* (k = 0, 1, 2) schedules a wait of (k+1)*15 seconds plus the jitter; whatever
\* the mix of rate limiting and network errors, the check makes at most 3
\* requests, and with no answer to any of them it reports not found.
C16_AppleBackoffAndCeiling ==
    (args.fn = "check_apple_music_api" /\ ret.kind # "not_called")
        => /\ ret.kind = "return"
           /\ ret.requests <= 3
           /\ \A k \in 0..2 :
                 (k < ret.requests /\ args.script[k + 1].resp = "403")
                    => \E i \in 1..Len(ret.waits) :
                          /\ ret.waits[i].attempt = k
                          /\ ret.waits[i].cause = "rate_limit"
                          /\ ret.waits[i].seconds - ret.waits[i].jitter = (k + 1) * 15
           /\ (\A k \in 1..3 : args.script[k].resp # "ok") => ret.value = FALSE

\* Three rate-limited attempts: waits of 15, 30 and 45 seconds plus jitter,
\* then not found, although a fourth request would have been answered.
C16_Witness ==
    /\ args.fn = "check_apple_music_api"
    /\ \A k \in 1..3 : args.script[k].resp = "403"
    /\ args.script[4].resp = "ok"
    /\ Len(args.results) > 0
    /\ ret.kind = "return"
    /\ ret.requests = 3
    /\ Len(ret.waits) = 3
    /\ ret.value = FALSE

\* C17 (SpecCalls): given a successful iTunes response, the Apple check
\* reports a match exactly when some result has artist similarity >= 0.85 and
\* track-title or album-title similarity >= 0.85.
C17_AppleMatchRule ==
    (/\ args.fn = "check_apple_music_api"
     /\ ret.kind # "not_called"
     /\ ret.requests >= 1
     /\ args.script[ret.requests].resp = "ok")
        => (ret.value
            <=> \E i \in 1..Len(args.results) :
                   LET r == args.results[i] IN
                   /\ ~r.artistName.empty /\ r.artistName.ratio >= 85
                   /\ \/ ~r.trackName.empty /\ r.trackName.ratio >= 85
                      \/ ~r.collectionName.empty /\ r.collectionName.ratio >= 85)

\* Artist 0.90, title 0.80, album 0.90 is reported as a match.
C17_Witness ==
    /\ args.fn = "check_apple_music_api"
    /\ args.script[1].resp = "ok"
    /\ args.results = <<[artistName |-> Text(90), trackName |-> Text(80),
                         collectionName |-> Text(90)]>>
    /\ ret.kind = "return"
    /\ ret.value = TRUE

\* C18 (SpecCalls): given a successful Spotify search, the check reports a
\* match exactly when some candidate has title similarity >= 0.85 and one of
\* that same candidate's artists has similarity >= 0.85 to the target artist.
C18_SpotifyMatchRule ==
    (/\ args.fn = "check_spotify_api"
     /\ ret.kind # "not_called"
     /\ args.search.kind = "return")
        => (ret.value
            <=> \E i \in 1..Len(args.search.items) :
                   LET c == args.search.items[i] IN
                   /\ ~c.name.empty /\ c.name.ratio >= 85
                   /\ \E k \in 1..Len(c.artists) :
                         ~c.artists[k].empty /\ c.artists[k].ratio >= 85)

\* The title matches on one candidate and the artist on another: no match.
C18_Witness ==
    /\ args.fn = "check_spotify_api"
    /\ args.search.kind = "return"
    /\ args.search.items = <<[name |-> Text(90), artists |-> <<Text(80)>>],
                             [name |-> Text(80), artists |-> <<Text(90)>>]>>
    /\ ret.kind = "return"
    /\ ret.value = FALSE

\* C19 (SpecCalls): for a non-empty candidate list, search_track selects the
\* first candidate whose ISRC equals the requested one ignoring case, or the
\* first candidate if none does; the ids it returns are the selected one's.
C19_SelectsIsrcMatchElseFirst ==
    (args.fn = "search_track" /\ ret.kind = "return" /\ Len(args.items) > 0)
        => LET equal(i) == /\ args.items[i].isrc.code = args.isrc.code
                              /\ args.items[i].isrc.code # 0
               matches == {i \in 1..Len(args.items) : equal(i)}
               sel == IF matches = {} THEN args.items[1]
                      ELSE args.items[CHOOSE i \in matches :
                                         \A j \in matches : i <= j]
           IN  ret.value.found
                  => /\ ret.value.track_id = sel.id
                     /\ ret.value.album_id = sel.album_id

\* The second candidate carries the requested ISRC in another case and is the
\* one returned, not the first.
C19_Witness ==
    /\ args.fn = "search_track"
    /\ args.isrc = [code |-> 1, case |-> "lower"]
    /\ args.items = <<[id |-> "trkB", album_id |-> "albA",
                       isrc |-> [code |-> 2, case |-> "upper"]],
                      [id |-> "trkA", album_id |-> "albA",
                       isrc |-> [code |-> 1, case |-> "upper"]]>>
    /\ ret.kind = "return"
    /\ ret.value = [found |-> TRUE, track_id |-> "trkA", album_id |-> "albA"]

\* C20 (SpecCalls): search_track returns None for an empty candidate list,
\* and returns a result only when the selected candidate has both a track id
\* and an album id; an incomplete selected candidate gives None even if
\* another candidate is complete.
C20_NoneUnlessSelectedComplete ==
    (args.fn = "search_track" /\ ret.kind = "return")
        => IF Len(args.items) = 0 THEN ~ret.value.found
           ELSE LET matches == {i \in 1..Len(args.items) :
                                   /\ args.items[i].isrc.code = args.isrc.code
                                   /\ args.items[i].isrc.code # 0}
                    sel == IF matches = {} THEN args.items[1]
                           ELSE args.items[CHOOSE i \in matches :
                                              \A j \in matches : i <= j]
                IN  ret.value.found <=> (sel.id # "" /\ sel.album_id # "")

\* The selected candidate lacks its album id and a complete candidate follows
\* it: None is returned.
C20_Witness ==
    /\ args.fn = "search_track"
    /\ args.isrc = [code |-> 1, case |-> "lower"]
    /\ args.items = <<[id |-> "trkA", album_id |-> "",
                       isrc |-> [code |-> 1, case |-> "upper"]],
                      [id |-> "trkB", album_id |-> "albA",
                       isrc |-> [code |-> 1, case |-> "upper"]]>>
    /\ ret.kind = "return"
    /\ ~ret.value.found

\* C21 (SpecRetry): the retrying request tells a rate-limit response (HTTP 429
\* or 403) from a transport error: the wait after a transport error on attempt
\* k is 2^k seconds (1 s, then 2 s), the wait after a rate-limit response is a
\* larger one.
C21_RateLimitWaitsLonger ==
    reqResult.kind # "not_called"
        => \A k \in 1..Len(reqResult.sleeps) :
              /\ reqScript[k] = "conn_error" => reqResult.sleeps[k] = 2 ^ (k - 1)
              /\ reqScript[k] \in {"http_429", "http_403"}
                    => reqResult.sleeps[k] > 2 ^ (k - 1)

\* C22 (SpecCalls): similar(x, y) is exactly 1.0 whenever x is not empty and
\* y equals x up to letter case, that is, x and y have the same upper case.
C22_SimilarIsOneUpToCase ==
    LET UpperChar(c) == IF c = "a" THEN <<"A">>
                        ELSE IF c = "s" THEN <<"S">>
                        ELSE IF c = "sz" THEN <<"S", "S">>
                        ELSE <<c>>
        RECURSIVE StrUpper(_)
        StrUpper(cs) == IF Len(cs) = 0 THEN <<>>
                        ELSE UpperChar(cs[1]) \o StrUpper(Tail(cs))
    IN  (/\ args.fn = "similar"
         /\ ret.kind = "return"
         /\ Len(args.a) > 0
         /\ StrUpper(args.a) = StrUpper(args.b))
            => ret.value.num = ret.value.den

\* C23 (Spec): in a metrics run, whatever path a track's pass took (no
\* candidate, no metric, persisted, per-track error), the pacing delay has
\* been slept when the loop goes on to the next track's first external call.
C23_PacingAfterEveryTrack ==
    (/\ run.kind = "streams"
     /\ run.pc = "loop"
     /\ obs.lastStep.path # "none"
     /\ run.idx < Len(run.tracks))
        => obs.lastStep.slept

\* C24 (Spec): in a metrics run each token flow runs at most once, both have
\* run exactly once before the database is opened and before any track is
\* resolved, and every track's calls use the tokens acquired then, also
\* after per-track failures.
C24_TokensAcquiredOncePerRun ==
    run.kind = "streams"
        => /\ obs.token_calls <= 1
           /\ obs.sniff_calls <= 1
           /\ (obs.connOpened \/ obs.search_calls > 0
                    \/ run.pc \in {"connect", "loop", "returned"})
                 => (obs.token_calls = 1 /\ obs.sniff_calls = 1)
           /\ \A used \in obs.tokens_used :
                 /\ used = <<run.search_token, run.web_token, run.client_token>>
                 /\ used[1] # "none" /\ used[2] # "none"

\* A completed run of two tracks whose first search failed: one request of
\* each token, and the second track was served with them.
C24_Witness ==
    /\ run.kind = "streams"
    /\ run.pc = "returned"
    /\ Len(run.tracks) = 2
    /\ run.errors = 1
    /\ obs.search_failures = 1
    /\ obs.lastStep.path = "persisted"
    /\ obs.token_calls = 1
    /\ obs.sniff_calls = 1
    /\ obs.tokens_used = {<<"srchTok", "tokA", "cliA">>}

\* C25 (SpecSniff): however many responses match and whenever they are
\* delivered, the future holds, and sniff_tokens returns, the bearer and the
\* client token of the first matching response; later matches neither
\* overwrite the result nor make the function raise.
C25_FirstMatchWins ==
    /\ fut.state = "result"
          => /\ Len(sniffMatches) >= 1
             /\ fut.tok = BearerToken(sniffMatches[1].auth)
             /\ fut.cli = sniffMatches[1].cli
    /\ sniffResult.kind = "return"
          => /\ Len(sniffMatches) >= 1
             /\ sniffResult.tok = BearerToken(sniffMatches[1].auth)
             /\ sniffResult.cli = sniffMatches[1].cli
    /\ (sniffPc = "raised" /\ Len(sniffMatches) >= 1 /\ fut.state = "result")
          => sniffResult.error = "goto_error"

\* Two matches with different tokens were delivered, the second while the
\* browser was closing; the first one's pair was returned.
C25_Witness ==
    /\ sniffPc = "returned"
    /\ Len(sniffMatches) = 2
    /\ sniffMatches[1].auth = "Bearer tokA"
    /\ sniffMatches[2].auth = "Bearer tokB"
    /\ sniffMatches[1].cli # sniffMatches[2].cli
    /\ sniffResult.tok = "tokA"
    /\ sniffResult.cli = sniffMatches[1].cli

\* C26 (Spec): when the health run fails before its database connection is
\* opened (the client setup fails, or db_conn fails), the failure that reaches
\* the caller is that failure: the except and finally blocks raise no other.
C26_EarlyHealthFailurePropagates ==
    (run.kind = "health" /\ run.pc = "raised" /\ ~obs.connOpened)
        => run.result.error \in {"client_fails", "connect_fails"}

=============================================================================
